---- MODULE Spec2Model ----
(***************************************************************************)
(* Model of src/proto_udp.c: the AF_CUST_UDP4 / AF_CUST_UDP6 protocol      *)
(* layer.  Two protocol descriptors (proto_udp4, proto_udp6) own a list of *)
(* listeners and a listener count; listeners move LI_INIT -> LI_ASSIGNED   *)
(* (udp4_add_listener / udp6_add_listener) -> LI_LISTEN                    *)
(* (udp_bind_listener, udp_bind_listeners).  udp_pause_listener always     *)
(* fails.                                                                  *)
(*                                                                         *)
(* The ERR_* bitmask is modelled as the set of the flags that are set:     *)
(* ERR_NONE is {}, `|` is \cup, `err & ERR_ABORT` is "ABORT" \in err.      *)
(* C strings are strings (sequences of characters); a char * that may be   *)
(* NULL is a record [null, str].                                           *)
(***************************************************************************)
EXTENDS Integers, Sequences, FiniteSets, TLC

(* ------------------------------ bounds --------------------------------- *)

\* Number of listener objects created by configuration parsing.
NumListeners == 2

\* Capacities (errlen) of the message buffers a caller may supply, besides
\* 0 (no buffer): one too small for any message and one that holds them all.
SmallLen == 16
BigLen == 128

Listeners == 1..NumListeners
Protos == {"udp4", "udp6"}
Ports == {53, 5353}
ErrLens == {0, SmallLen, BigLen}

(* ------------------------- program constants --------------------------- *)

LI_INIT == "LI_INIT"
LI_ASSIGNED == "LI_ASSIGNED"
LI_LISTEN == "LI_LISTEN"
ListenerStates == {LI_INIT, LI_ASSIGNED, LI_LISTEN}

PR_MODE_SYSLOG == "PR_MODE_SYSLOG"
PR_MODE_HTTP == "PR_MODE_HTTP"
Modes == {PR_MODE_SYSLOG, PR_MODE_HTTP}

ERR_NONE == {}
ERR_RETRYABLE == {"RETRYABLE"}
ERR_FATAL == {"FATAL"}
ERR_ABORT == {"ABORT"}
ERR_WARN == {"WARN"}
ERR_ALERT == {"ALERT"}

NULL == [null |-> TRUE, str |-> ""]
Str(s) == [null |-> FALSE, str |-> s]

\* char pn[INET6_ADDRSTRLEN]
INET6_ADDRSTRLEN == 46

\* msg = "UDP is not yet supported on this proxy mode"
StrUnsupported == "UDP is not yet supported on this proxy mode"

\* The content of the buffer a caller hands in, before the call writes to it.
StrGarbage == "??"

(* --------------------------- string helpers ---------------------------- *)

Min(a, b) == IF a < b THEN a ELSE b

Take(s, n) == SubSeq(s, 1, Min(Len(s), n))

Digit(d) == CASE d = 0 -> "0" [] d = 1 -> "1" [] d = 2 -> "2" [] d = 3 -> "3"
              [] d = 4 -> "4" [] d = 5 -> "5" [] d = 6 -> "6" [] d = 7 -> "7"
              [] d = 8 -> "8" [] d = 9 -> "9"

\* printf's %d of a non-negative int.
RECURSIVE FmtInt(_)
FmtInt(n) == IF n < 10 THEN Digit(n) ELSE FmtInt(n \div 10) \o Digit(n % 10)

\* snprintf(buf, size, "%s", s): with size 0 nothing is stored; otherwise at
\* most size-1 characters of s are stored, then the NUL.
snprintf(buf, size, s) == IF size = 0 THEN buf ELSE Take(s, size - 1)

\* htons()/ntohs() on a little-endian host: the two bytes of the low 16 bits
\* swapped.
htons(p) == ((p % 65536) % 256) * 256 + ((p % 65536) \div 256)
ntohs(p) == htons(p)

(* ------------------------ external collaborators ----------------------- *)

\* The address configured on listener l, as addr_to_str() renders it into
\* pn[INET6_ADDRSTRLEN].
AddrText(l) == "10.0.0." \o FmtInt(l)
addr_to_str(l) == Take(AddrText(l), INET6_ADDRSTRLEN - 1)

\* get_host_port(&listener->rx.addr)
get_host_port(port_be) == ntohs(port_be)

\* A message the receiver-bind primitive allocates when it fails.
StrBindFailed == "cannot bind socket"

\* What sock_inet_bind_receiver() may answer: the flags it returns and the
\* message it leaves in msg (NULL when it returns ERR_NONE).
BindResponses ==
    { [err |-> ERR_NONE, msg |-> NULL],
      [err |-> ERR_ALERT, msg |-> Str(StrBindFailed)],
      [err |-> ERR_RETRYABLE \cup ERR_ALERT, msg |-> Str(StrBindFailed)],
      [err |-> ERR_FATAL \cup ERR_ABORT \cup ERR_ALERT, msg |-> Str(StrBindFailed)] }

(* ------------------------------- state --------------------------------- *)

VARIABLES
    state,         \* listener->state
    mode,          \* listener->bind_conf->frontend->mode
    rx_proto,      \* listener->rx.proto: "NULL", "udp4" or "udp6"
    sin_port,      \* ((struct sockaddr_in *)&listener->rx.addr)->sin_port
    listeners,     \* proto_udp4.listeners / proto_udp6.listeners, in list order
    nb_listeners,  \* proto_udp4.nb_listeners / proto_udp6.nb_listeners
    errmsg,        \* content of the caller's message buffer after the last call
    last           \* the last call made and what it returned

vars == <<state, mode, rx_proto, sin_port, listeners, nb_listeners, errmsg, last>>

NoCall == [op |-> "none", proto |-> "NULL", l |-> 0, port |-> 0, errlen |-> 0,
           pre |-> LI_INIT, ret |-> ERR_NONE, rc |-> 0,
           called |-> <<>>, outs |-> <<>>, prims |-> <<>>]

\* Static initialisers of proto_udp4 / proto_udp6 (empty list, count 0) and
\* freshly created listeners, each owned by a frontend of some mode.  The
\* listeners are interchangeable but for their address, so the syslog ones
\* are numbered first; any list order is still reached through the order of
\* the add calls.
Init ==
    /\ state = [l \in Listeners |-> LI_INIT]
    /\ \E k \in 0..NumListeners :
           mode = [l \in Listeners |-> IF l <= k THEN PR_MODE_SYSLOG ELSE PR_MODE_HTTP]
    /\ rx_proto = [l \in Listeners |-> "NULL"]
    /\ sin_port = [l \in Listeners |-> 0]
    /\ listeners = [p \in Protos |-> <<>>]
    /\ nb_listeners = [p \in Protos |-> 0]
    /\ errmsg = StrGarbage
    /\ last = NoCall

(* ------------------------------ add ------------------------------------ *)

\* add_listener without its LI_INIT guard.
add_listener_unguarded(p, l, port) ==
    [state |-> [state EXCEPT ![l] = LI_ASSIGNED],
     rx_proto |-> [rx_proto EXCEPT ![l] = p],
     sin_port |-> [sin_port EXCEPT ![l] = htons(port)],
     listeners |-> [listeners EXCEPT ![p] = Append(@, l)],
     nb_listeners |-> [nb_listeners EXCEPT ![p] = @ + 1]]

\* add_listener without the nb_listeners++.
add_listener_uncounted(p, l, port) ==
    IF state[l] # LI_INIT
    THEN [state |-> state, rx_proto |-> rx_proto, sin_port |-> sin_port,
          listeners |-> listeners, nb_listeners |-> nb_listeners]
    ELSE [state |-> [state EXCEPT ![l] = LI_ASSIGNED],
          rx_proto |-> [rx_proto EXCEPT ![l] = p],
          sin_port |-> [sin_port EXCEPT ![l] = htons(port)],
          listeners |-> [listeners EXCEPT ![p] = Append(@, l)],
          nb_listeners |-> nb_listeners]

\* add_listener without the assignment of rx.proto.
add_listener_unowned(p, l, port) ==
    IF state[l] # LI_INIT
    THEN [state |-> state, rx_proto |-> rx_proto, sin_port |-> sin_port,
          listeners |-> listeners, nb_listeners |-> nb_listeners]
    ELSE [state |-> [state EXCEPT ![l] = LI_ASSIGNED],
          rx_proto |-> rx_proto,
          sin_port |-> [sin_port EXCEPT ![l] = htons(port)],
          listeners |-> [listeners EXCEPT ![p] = Append(@, l)],
          nb_listeners |-> [nb_listeners EXCEPT ![p] = @ + 1]]

\* The body shared by udp4_add_listener and udp6_add_listener, for the
\* descriptor p the variant names; the result is the new value of the
\* listener fields and of the two descriptors.
add_listener(p, l, port) ==
    IF state[l] # LI_INIT
    THEN [state |-> state, rx_proto |-> rx_proto, sin_port |-> sin_port,
          listeners |-> listeners, nb_listeners |-> nb_listeners]
    ELSE [state |-> [state EXCEPT ![l] = LI_ASSIGNED],
          rx_proto |-> [rx_proto EXCEPT ![l] = p],
          sin_port |-> [sin_port EXCEPT ![l] = htons(port)],
          listeners |-> [listeners EXCEPT ![p] = Append(@, l)],
          nb_listeners |-> [nb_listeners EXCEPT ![p] = @ + 1]]

\* udp4_add_listener leaving the listener LI_LISTEN instead of LI_ASSIGNED.
udp4_add_listener_listening(l, port) ==
    [add_listener("udp4", l, port) EXCEPT
        !.state = [state EXCEPT ![l] = IF @ = LI_INIT THEN LI_LISTEN ELSE @]]

udp4_add_listener(l, port) == add_listener("udp4", l, port)

\* udp6_add_listener linking the listener into proto_udp4's list.
udp6_add_listener_udp4_list(l, port) == add_listener("udp4", l, port)

udp6_add_listener(l, port) == add_listener("udp6", l, port)

AddCall(p, l, port, r) ==
    /\ state' = r.state
    /\ rx_proto' = r.rx_proto
    /\ sin_port' = r.sin_port
    /\ listeners' = r.listeners
    /\ nb_listeners' = r.nb_listeners
    /\ last' = [NoCall EXCEPT !.op = "add", !.proto = p, !.l = l, !.port = port,
                              !.pre = state[l]]
    /\ errmsg' = StrGarbage
    /\ UNCHANGED mode

Add4 == \E l \in Listeners, port \in Ports : AddCall("udp4", l, port, udp4_add_listener(l, port))

Add6 == \E l \in Listeners, port \in Ports : AddCall("udp6", l, port, udp6_add_listener(l, port))

(* ------------------------------ bind ----------------------------------- *)

\* Decorated printing sin_port as stored, without get_host_port().
Decorated_network_order(msg, l, port_be) ==
    msg \o " [" \o addr_to_str(l) \o ":" \o FmtInt(port_be) \o "]"

\* The text built at udp_return: "%s [%s:%d]".
Decorated(msg, l, port_be) ==
    msg \o " [" \o addr_to_str(l) \o ":" \o FmtInt(get_host_port(port_be)) \o "]"

\* The udp_return label: with a message and a buffer, the message is
\* rendered with the listener's address and port; err is returned.
udp_return(err, st, buf, msg, l, errlen, prim) ==
    [err |-> err, st |-> st,
     buf |-> IF ~msg.null /\ errlen # 0
             THEN snprintf(buf, errlen, Decorated(msg.str, l, sin_port[l]))
             ELSE buf,
     prim |-> prim]

\* "ensure we never return garbage": if (errlen) *errmsg = 0;
clear_errmsg_always(buf, errlen) == ""

clear_errmsg(buf, errlen) == IF errlen # 0 THEN "" ELSE buf

\* if (listener->state != LI_ASSIGNED) return ERR_NONE;
already_bound_listen_only(st, l) == st[l] = LI_LISTEN

already_bound_init_only(st, l) == st[l] = LI_INIT

already_bound(st, l) == st[l] # LI_ASSIGNED

\* switch (listener->bind_conf->frontend->mode): case PR_MODE_SYSLOG breaks
\* out to the bind, default goes to udp_return with ERR_FATAL | ERR_ALERT.
mode_supported_any(l) == TRUE

mode_supported(l) == mode[l] = PR_MODE_SYSLOG

\* udp_bind_listener marking every listener LI_LISTEN, not only the one it
\* was called on.
udp_bind_listener_marks_all(st, buf, l, errlen, resp) ==
    [err |-> resp.err, st |-> [x \in Listeners |-> LI_LISTEN],
     buf |-> clear_errmsg(buf, errlen), prim |-> TRUE]

\* udp_bind_listener(listener, errmsg, errlen) started with listener states
\* st and buffer content buf, when the receiver-bind primitive would answer
\* resp.  Result: the flags returned, the listener states, the buffer, and
\* whether the primitive was invoked.
udp_bind_listener(st, buf, l, errlen, resp) ==
    LET buf0 == clear_errmsg(buf, errlen)
    IN  IF already_bound(st, l)
        THEN [err |-> ERR_NONE, st |-> st, buf |-> buf0, prim |-> FALSE]
        ELSE IF ~mode_supported(l)
        THEN udp_return(ERR_NONE \cup ERR_FATAL \cup ERR_ALERT, st, buf0,
                        Str(StrUnsupported), l, errlen, FALSE)
        ELSE IF resp.err # ERR_NONE
        THEN [err |-> resp.err, st |-> st,
              buf |-> snprintf(buf0, errlen, resp.msg.str), prim |-> TRUE]
        ELSE udp_return(resp.err, [st EXCEPT ![l] = LI_LISTEN], buf0,
                        resp.msg, l, errlen, TRUE)

\* if (err & ERR_ABORT) break;
loop_break_never(err) == FALSE

loop_break_on_error(err) == err # ERR_NONE

loop_break(err) == "ABORT" \in err

\* The loop body with err = r.err in place of err |= r.err.
bind_step_overwrites(acc, l, r) ==
    [err |-> r.err, st |-> r.st, buf |-> r.buf,
     called |-> Append(acc.called, l),
     outs |-> Append(acc.outs, r.err),
     prims |-> IF r.prim THEN Append(acc.prims, l) ELSE acc.prims]

\* The loop body of udp_bind_listeners for list entry l, whose
\* udp_bind_listener call produced r: err |= r.err.
bind_step(acc, l, r) ==
    [err |-> acc.err \cup r.err, st |-> r.st, buf |-> r.buf,
     called |-> Append(acc.called, l),
     outs |-> Append(acc.outs, r.err),
     prims |-> IF r.prim THEN Append(acc.prims, l) ELSE acc.prims]

\* The list_for_each_entry loop of udp_bind_listeners from the i-th entry of
\* list ls on, with the accumulated result acc; it breaks once err carries
\* ERR_ABORT.  (Each intermediate result is bound by a quantifier over a
\* singleton so that it is computed once.)
RECURSIVE bind_loop(_, _, _, _, _)
bind_loop(ls, i, errlen, resps, acc) ==
    IF i > Len(ls)
    THEN acc
    ELSE CHOOSE res \in
            { IF loop_break(nacc.err)
              THEN nacc
              ELSE bind_loop(ls, i + 1, errlen, resps, nacc) :
                nacc \in { bind_step(acc, ls[i], r) :
                    r \in {udp_bind_listener(acc.st, acc.buf, ls[i], errlen, resps[ls[i]])} } } :
            TRUE

\* udp_bind_listeners(proto, errmsg, errlen)
udp_bind_listeners(p, errlen, resps) ==
    bind_loop(listeners[p], 1, errlen, resps,
              [err |-> ERR_NONE, st |-> state, buf |-> StrGarbage,
               called |-> <<>>, outs |-> <<>>, prims |-> <<>>])

\* The answers the primitive may give during one call that walks the list
\* ls from its i-th entry on: one per listener it is invoked for (those
\* udp_bind_listener does not return early on, up to the one whose answer
\* ends the loop); it is never asked about the others.
NoAnswer == [err |-> ERR_NONE, msg |-> NULL]

RECURSIVE Answers(_, _, _)
Answers(st, ls, i) ==
    IF i > Len(ls)
    THEN {[l \in Listeners |-> NoAnswer]}
    ELSE IF already_bound(st, ls[i]) \/ ~mode_supported(ls[i])
    THEN Answers(st, ls, i + 1)
    ELSE UNION { IF loop_break(a.err)
                 THEN {[l \in Listeners |-> IF l = ls[i] THEN a ELSE NoAnswer]}
                 ELSE {[f EXCEPT ![ls[i]] = a] : f \in Answers(st, ls, i + 1)} :
                 a \in BindResponses }

BindOne ==
    \E l \in Listeners, errlen \in ErrLens :
      \E resp \in Answers(state, <<l>>, 1) :
        \E r \in {udp_bind_listener(state, StrGarbage, l, errlen, resp[l])} :
            /\ state' = r.st
            /\ errmsg' = r.buf
            /\ last' = [NoCall EXCEPT !.op = "bindOne", !.l = l, !.errlen = errlen,
                                      !.pre = state[l], !.ret = r.err,
                                      !.called = <<l>>, !.outs = <<r.err>>,
                                      !.prims = IF r.prim THEN <<l>> ELSE <<>>]
            /\ UNCHANGED <<mode, rx_proto, sin_port, listeners, nb_listeners>>

BindAll ==
    \E p \in Protos :
      \E resps \in Answers(state, listeners[p], 1), errlen \in ErrLens :
        \E r \in {udp_bind_listeners(p, errlen, resps)} :
            /\ state' = r.st
            /\ errmsg' = r.buf
            /\ last' = [NoCall EXCEPT !.op = "bindAll", !.proto = p, !.errlen = errlen,
                                      !.ret = r.err, !.called = r.called,
                                      !.outs = r.outs, !.prims = r.prims]
            /\ UNCHANGED <<mode, rx_proto, sin_port, listeners, nb_listeners>>

(* ------------------------------ pause ---------------------------------- *)

\* udp_pause_listener reporting success.
udp_pause_listener_succeeds(l) == 0

\* "Should be called with the listener's lock held": return -1, whatever the
\* listener's state.
udp_pause_listener(l) == -1

Pause ==
    \E l \in Listeners :
        /\ last' = [NoCall EXCEPT !.op = "pause", !.l = l, !.pre = state[l],
                                  !.rc = udp_pause_listener(l)]
        /\ errmsg' = StrGarbage
        /\ UNCHANGED <<state, mode, rx_proto, sin_port, listeners, nb_listeners>>

(* --------------------------- specification ----------------------------- *)

Next == Add4 \/ Add6 \/ BindOne \/ BindAll \/ Pause

Spec == Init /\ [][Next]_vars

(* ------------------------- address resolution -------------------------- *)

AF_UNSPEC == "AF_UNSPEC"
AF_INET == "AF_INET"
AF_INET6 == "AF_INET6"
AF_CUST_UDP4 == "AF_CUST_UDP4"
AF_CUST_UDP6 == "AF_CUST_UDP6"

\* <dir>: listener (=0) or initiator (!=0).
Dirs == {0, 1}

\* What the kernel knows of the socket behind <fd>: whether fd is a socket
\* at all, its native family, whether it has a peer, and whether the traffic
\* it carries was redirected to it (so that an original destination is on
\* record).
Sockets ==
    [open : BOOLEAN, family : {AF_INET, AF_INET6},
     connected : BOOLEAN, redirected : BOOLEAN]

\* The caller's struct sockaddr before the call.
SockaddrsIn ==
    { [family |-> AF_UNSPEC, addr |-> "none"],
      [family |-> AF_INET6, addr |-> "stale"] }

\* getsockname(fd, sa, &salen)
getsockname(k, sa) ==
    IF k.open
    THEN [ret |-> 0, sa |-> [family |-> k.family, addr |-> "local"]]
    ELSE [ret |-> -1, sa |-> sa]

\* getpeername(fd, sa, &salen)
getpeername(k, sa) ==
    IF k.open /\ k.connected
    THEN [ret |-> 0, sa |-> [family |-> k.family, addr |-> "peer"]]
    ELSE [ret |-> -1, sa |-> sa]

\* getsockopt(fd, IPPROTO_IP, SO_ORIGINAL_DST, sa, &salen)
getsockopt_original_dst(k, sa) ==
    IF k.open /\ k.redirected
    THEN [ret |-> 0, sa |-> [family |-> AF_INET, addr |-> "original"]]
    ELSE [ret |-> -1, sa |-> sa]

\* sock_get_src(fd, sa, salen, dir)
sock_get_src(k, sa, dir) ==
    IF dir # 0 THEN getsockname(k, sa) ELSE getpeername(k, sa)

\* sock_get_dst(fd, sa, salen, dir): the plain query of either end.
sock_get_dst(k, sa, dir) ==
    IF dir # 0 THEN getpeername(k, sa) ELSE getsockname(k, sa)

\* sock_inet_get_dst(fd, sa, salen, dir): for a listener, the address on
\* record as the original destination when there is one.
sock_inet_get_dst(k, sa, dir) ==
    IF dir # 0
    THEN getpeername(k, sa)
    ELSE LET r == getsockname(k, sa)
             o == getsockopt_original_dst(k, r.sa)
         IN  IF r.ret < 0 THEN r
             ELSE IF o.ret = 0 THEN o
             ELSE r

\* The tail shared by the four functions: if (!ret) sa->sa_family = tag;
\* return ret.  The result also names the native query that was called.
\* (retag_always: the tag written also when the native query failed.)
retag_always(native, r, tag) ==
    [ret |-> r.ret, sa |-> [r.sa EXCEPT !.family = tag], native |-> native]

retag(native, r, tag) ==
    [ret |-> r.ret,
     sa |-> IF r.ret = 0 THEN [r.sa EXCEPT !.family = tag] ELSE r.sa,
     native |-> native]

udp_get_src(k, sa, dir) ==
    retag("sock_get_src", sock_get_src(k, sa, dir), AF_CUST_UDP4)

udp6_get_src(k, sa, dir) ==
    retag("sock_get_src", sock_get_src(k, sa, dir), AF_CUST_UDP6)

udp_get_dst(k, sa, dir) ==
    retag("sock_inet_get_dst", sock_inet_get_dst(k, sa, dir), AF_CUST_UDP4)

udp6_get_dst(k, sa, dir) ==
    retag("sock_get_dst", sock_get_dst(k, sa, dir), AF_CUST_UDP6)

\* The native query a result names, applied to the same arguments.
NativeQuery(native, k, sa, dir) ==
    CASE native = "sock_get_src" -> sock_get_src(k, sa, dir)
      [] native = "sock_get_dst" -> sock_get_dst(k, sa, dir)
      [] native = "sock_inet_get_dst" -> sock_inet_get_dst(k, sa, dir)

\* A call through the dispatch table of descriptor p (.get_src / .get_dst)
\* that returned r; the listeners and the descriptors' lists are not
\* involved.
AddrCall(op, p, k, sa, dir, r) ==
    /\ last' = [op |-> op, proto |-> p, sock |-> k, dir |-> dir, sa_in |-> sa,
                native |-> r.native, nat |-> NativeQuery(r.native, k, sa, dir),
                rc |-> r.ret, sa |-> r.sa]
    /\ UNCHANGED <<state, mode, rx_proto, sin_port, listeners, nb_listeners, errmsg>>

GetSrc4 ==
    \E k \in Sockets, sa \in SockaddrsIn, dir \in Dirs :
        AddrCall("get_src", "udp4", k, sa, dir, udp_get_src(k, sa, dir))

GetSrc6 ==
    \E k \in Sockets, sa \in SockaddrsIn, dir \in Dirs :
        AddrCall("get_src", "udp6", k, sa, dir, udp6_get_src(k, sa, dir))

GetDst4 ==
    \E k \in Sockets, sa \in SockaddrsIn, dir \in Dirs :
        AddrCall("get_dst", "udp4", k, sa, dir, udp_get_dst(k, sa, dir))

GetDst6 ==
    \E k \in Sockets, sa \in SockaddrsIn, dir \in Dirs :
        AddrCall("get_dst", "udp6", k, sa, dir, udp6_get_dst(k, sa, dir))

NextAddr == GetSrc4 \/ GetSrc6 \/ GetDst4 \/ GetDst6

\* The address queries alone: they read the socket only, so they are
\* explored apart from the listener life cycle.
SpecAddr == Init /\ [][NextAddr]_vars

(* --------------------------- the bind phase ---------------------------- *)

\* The caller of udp_bind_listeners during startup: once the listeners are
\* added it runs the batch on a descriptor and runs it again for as long as
\* the batch returns something other than ERR_NONE.
ConfigAdd == last.op # "bindAll" /\ (Add4 \/ Add6)

RetryBindAll ==
    /\ last.op = "bindAll" => last.ret # ERR_NONE
    /\ BindAll
    /\ last.op = "bindAll" => last'.proto = last.proto

NextRetry == ConfigAdd \/ RetryBindAll

\* The caller does keep re-running the batch while it may.
SpecRetry == Init /\ [][NextRetry]_vars /\ WF_vars(RetryBindAll)

(* ------------------------------ helpers -------------------------------- *)

Range(s) == {s[i] : i \in DOMAIN s}

OtherProto(p) == IF p = "udp4" THEN "udp6" ELSE "udp4"

\* The bitwise OR of the outcomes outs[1..k].
OrOf(outs, k) == UNION {outs[i] : i \in 1..k}

(* ------------------------------- claims -------------------------------- *)

\* C1: udp_bind_listener on a listener that is not LI_ASSIGNED (LI_INIT or
\* LI_LISTEN) returns ERR_NONE, changes no listener's state and does not
\* invoke sock_inet_bind_receiver, whatever the frontend's mode.
C1_BindOneNotAssignedIsNoop ==
    [][ (last'.op = "bindOne" /\ state[last'.l] # LI_ASSIGNED)
        => /\ last'.ret = ERR_NONE
           /\ state' = state
           /\ last'.prims = <<>> ]_vars

C1_Witness ==
    /\ last.op = "bindOne"
    /\ last.pre = LI_LISTEN
    /\ last.errlen = BigLen

\* C2: add (udp4 or udp6) on a listener that is not LI_INIT changes neither
\* the listener's state, port and descriptor reference nor the list and count
\* of either descriptor; add(l, 53) followed by add(l, 5353) leaves the port
\* at 53 and the state LI_ASSIGNED.
C2_AddNotInitIsNoop ==
    [][ /\ (last'.op = "add" /\ state[last'.l] # LI_INIT)
           => UNCHANGED <<state, sin_port, rx_proto, listeners, nb_listeners>>
        /\ ( /\ last.op = "add" /\ last.pre = LI_INIT /\ last.port = 53
             /\ last'.op = "add" /\ last'.l = last.l /\ last'.port = 5353 )
           => /\ get_host_port(sin_port'[last.l]) = 53
              /\ state'[last.l] = LI_ASSIGNED ]_vars

C2_Witness ==
    /\ last.op = "add"
    /\ last.pre = LI_ASSIGNED
    /\ last.port = 5353
    /\ sin_port[last.l] = 13568

\* C3: add on a listener in LI_INIT leaves it LI_ASSIGNED and a member of
\* the list of the descriptor whose add was called and of no other; that
\* descriptor's count grows by exactly 1; the other descriptor's list and
\* count are unchanged.
C3_AddFromInit ==
    [][ (last'.op = "add" /\ state[last'.l] = LI_INIT)
        => LET l == last'.l
               p == last'.proto
               q == OtherProto(last'.proto)
           IN  /\ state'[l] = LI_ASSIGNED
               /\ Cardinality({i \in DOMAIN listeners'[p] : listeners'[p][i] = l}) = 1
               /\ l \notin Range(listeners'[q])
               /\ nb_listeners'[p] = nb_listeners[p] + 1
               /\ Range(listeners'[p]) = Range(listeners[p]) \cup {l}
               /\ listeners'[q] = listeners[q]
               /\ nb_listeners'[q] = nb_listeners[q] ]_vars

C3_Witness ==
    /\ last.op = "add"
    /\ last.pre = LI_INIT
    /\ last.proto = "udp6"
    /\ nb_listeners["udp6"] = 2

\* C4: in every reachable state each descriptor's nb_listeners equals the
\* number of listeners in its list.
C4_CountIsListSize ==
    \A p \in Protos :
        /\ nb_listeners[p] = Len(listeners[p])
        /\ nb_listeners[p] = Cardinality(Range(listeners[p]))

C4_Witness ==
    /\ nb_listeners["udp4"] = 1
    /\ nb_listeners["udp6"] = 1
    /\ last.op = "pause"

\* The first position of outs whose outcome carries ERR_ABORT.
FirstAbort(outs) ==
    CHOOSE k \in DOMAIN outs :
        /\ "ABORT" \in outs[k]
        /\ \A i \in 1..(k - 1) : "ABORT" \notin outs[i]

\* C5: when the k-th listener of the list is the first whose
\* udp_bind_listener outcome carries ERR_ABORT, udp_bind_listeners calls
\* udp_bind_listener on listeners 1..k in list order and on none after k
\* (they keep their state, the primitive is not invoked for them), and
\* returns the OR of the outcomes 1..k.
C5_AbortStopsBatch ==
    [][ (last'.op = "bindAll" /\ \E i \in DOMAIN last'.outs : "ABORT" \in last'.outs[i])
        => LET ls == listeners[last'.proto]
               k == FirstAbort(last'.outs)
           IN  /\ Len(last'.outs) = k
               /\ last'.called = SubSeq(ls, 1, k)
               /\ \A i \in (k + 1)..Len(ls) :
                      /\ state'[ls[i]] = state[ls[i]]
                      /\ ls[i] \notin Range(last'.prims)
               /\ last'.ret = OrOf(last'.outs, k) ]_vars

C5_Witness ==
    /\ last.op = "bindAll"
    /\ "ABORT" \in last.ret
    /\ Len(last.called) < Len(listeners[last.proto])
    /\ state[listeners[last.proto][Len(last.called) + 1]] = LI_ASSIGNED
    /\ mode[listeners[last.proto][Len(last.called) + 1]] = PR_MODE_SYSLOG

\* C6: when no outcome of the batch carries ERR_ABORT, udp_bind_listeners
\* calls udp_bind_listener on every listener of the list, in order, also on
\* those after one that returned ERR_RETRYABLE or ERR_FATAL, and returns the
\* OR of all their outcomes.
C6_NoAbortVisitsAll ==
    (last.op = "bindAll" /\ \A i \in DOMAIN last.outs : "ABORT" \notin last.outs[i])
    => /\ last.called = listeners[last.proto]
       /\ Len(last.outs) = Len(last.called)
       /\ last.ret = OrOf(last.outs, Len(last.outs))
       /\ \A i \in DOMAIN last.called :
              (last.called[i] \in Range(last.prims) /\ last.outs[i] = ERR_NONE)
              => state[last.called[i]] = LI_LISTEN

C6_Witness ==
    /\ last.op = "bindAll"
    /\ Len(last.called) = 2
    /\ last.outs[1] \cap (ERR_RETRYABLE \cup ERR_FATAL) # {}
    /\ "ABORT" \notin last.ret
    /\ last.prims = <<last.called[2]>>
    /\ state[last.called[2]] = LI_LISTEN

\* C7: udp_bind_listener on an LI_ASSIGNED listener whose frontend mode is
\* not PR_MODE_SYSLOG returns exactly ERR_FATAL | ERR_ALERT, does not invoke
\* sock_inet_bind_receiver and leaves the listener LI_ASSIGNED.
C7_UnsupportedModeIsFatal ==
    (last.op = "bindOne" /\ last.pre = LI_ASSIGNED /\ mode[last.l] # PR_MODE_SYSLOG)
    => /\ last.ret = ERR_FATAL \cup ERR_ALERT
       /\ last.prims = <<>>
       /\ state[last.l] = LI_ASSIGNED

C7_Witness ==
    /\ last.op = "bindOne"
    /\ last.pre = LI_ASSIGNED
    /\ mode[last.l] = PR_MODE_HTTP
    /\ last.errlen = 0

\* "<text> [<address>:<port>]" with the address and the port (as given to
\* add, in host order) configured on listener l.
WithAddress(text, l, port) ==
    text \o " [" \o AddrText(l) \o ":" \o FmtInt(port) \o "]"

\* The ports whose add call stored the value now in l's sin_port.
ConfiguredPorts(l) == {port \in Ports : htons(port) = sin_port[l]}

\* C8: for a descriptor holding two LI_ASSIGNED listeners, a of the
\* supported mode whose bind succeeds and b of an unsupported mode, in
\* either list order, udp_bind_listeners returns ERR_FATAL | ERR_ALERT,
\* leaves a LI_LISTEN and b LI_ASSIGNED, and its buffer holds b's diagnostic
\* followed by b's address and port.  Stated for a buffer that is large
\* enough for the whole message (capacity BigLen), so that truncation plays
\* no part.
C8_BatchBufferHoldsDiagnostic ==
    \A a, b \in Listeners :
        ( /\ last.op = "bindAll"
          /\ last.errlen = BigLen
          /\ a # b
          /\ Range(listeners[last.proto]) = {a, b}
          /\ Range(last.called) = {a, b}
          /\ mode[a] = PR_MODE_SYSLOG
          /\ last.prims = <<a>>
          /\ \A i \in DOMAIN last.called : last.called[i] = a => last.outs[i] = ERR_NONE
          /\ mode[b] # PR_MODE_SYSLOG
          /\ \A i \in DOMAIN last.called : last.called[i] = b => last.outs[i] # ERR_NONE )
        => /\ last.ret = ERR_FATAL \cup ERR_ALERT
           /\ state[a] = LI_LISTEN
           /\ state[b] = LI_ASSIGNED
           /\ \E port \in ConfiguredPorts(b) : errmsg = WithAddress(StrUnsupported, b, port)

\* C9 as claimed: whenever udp_bind_listener returns an outcome that carries
\* a message and the buffer has a non-zero capacity, the buffer holds
\* "<text> [<address>:<port>]" with the listener's address and port.
C9_MessageHasAddressAndPort ==
    (last.op = "bindOne" /\ last.errlen # 0 /\ last.ret # ERR_NONE)
    => \E port \in ConfiguredPorts(last.l), text \in {StrUnsupported, StrBindFailed} :
           errmsg = WithAddress(text, last.l, port)

\* C9 as amended: with a buffer of capacity errlen > 0 and an outcome that
\* carries a message, the buffer holds the first errlen - 1 characters of
\* "<fixed text> [<address>:<port>]" when the mode is unsupported, and the
\* first errlen - 1 characters of the primitive's own message, with nothing
\* appended, when the primitive reported the failure.
C9_MessageAsWritten ==
    (last.op = "bindOne" /\ last.errlen # 0 /\ last.ret # ERR_NONE)
    => /\ Len(errmsg) <= last.errlen - 1
       /\ IF last.prims = <<>>
          THEN \E port \in ConfiguredPorts(last.l) :
                   errmsg = Take(WithAddress(StrUnsupported, last.l, port), last.errlen - 1)
          ELSE \E a \in BindResponses :
                   /\ a.err = last.ret
                   /\ errmsg = Take(a.msg.str, last.errlen - 1)

C9_Witness ==
    /\ last.op = "bindOne"
    /\ last.errlen = BigLen
    /\ last.prims = <<>>
    /\ last.ret # ERR_NONE
    /\ sin_port[last.l] = htons(5353)
    /\ Len(errmsg) > Len(StrUnsupported)

\* C10: the buffer capacity does not influence the outcome.  From every
\* reachable state and for every answer of the primitive, udp_bind_listener
\* and udp_bind_listeners called with capacity 0 return the same flags,
\* invoke the primitive for the same listeners and leave the same listener
\* states as with a non-zero capacity, and with capacity 0 the buffer is
\* left as the caller handed it in.  The comparison reads the listeners and
\* the descriptors only, not the record of the last call, so it is made once
\* per configuration: in the state that pause(1), which is always possible
\* and changes nothing, leads to.
C10_CapacityDoesNotChangeOutcome ==
    (last.op = "pause" /\ last.l = 1)
    => /\ \A l \in Listeners, a \in BindResponses :
             \A z \in {udp_bind_listener(state, StrGarbage, l, 0, a)} :
                 /\ z.buf = StrGarbage
                 /\ \A e \in ErrLens \ {0} :
                        \A n \in {udp_bind_listener(state, StrGarbage, l, e, a)} :
                            /\ z.err = n.err
                            /\ z.st = n.st
                            /\ z.prim = n.prim
       /\ \A p \in Protos :
             \A r \in Answers(state, listeners[p], 1) :
                 \A z \in {udp_bind_listeners(p, 0, r)} :
                     /\ z.buf = StrGarbage
                     /\ \A e \in ErrLens \ {0} :
                            \A n \in {udp_bind_listeners(p, e, r)} :
                                /\ z.err = n.err
                                /\ z.st = n.st
                                /\ z.called = n.called
                                /\ z.outs = n.outs
                                /\ z.prims = n.prims

C10_Witness ==
    /\ last.op = "bindAll"
    /\ last.errlen = 0
    /\ "FATAL" \in last.ret
    /\ \E l \in Range(last.prims) : state[l] = LI_LISTEN
    /\ errmsg = StrGarbage

\* C11: udp_pause_listener returns a negative result for a listener in any
\* state (LI_INIT, LI_ASSIGNED, LI_LISTEN) and changes neither a listener's
\* state nor the list or count of either descriptor; under any sequence of
\* add, bind and pause calls every listener stays in one of these three
\* states (no paused state is reached).
C11_PauseAlwaysFails ==
    /\ [](\A l \in Listeners : state[l] \in ListenerStates)
    /\ [][ last'.op = "pause"
           => /\ last'.rc < 0
              /\ UNCHANGED <<state, listeners, nb_listeners>> ]_vars

C11_Witness ==
    /\ last.op = "pause"
    /\ last.pre = LI_LISTEN
    /\ last.rc < 0
    /\ state[last.l] = LI_LISTEN

\* The logical address family of descriptor p.
Tag(p) == IF p = "udp4" THEN AF_CUST_UDP4 ELSE AF_CUST_UDP6

\* C12: for udp_get_src, udp6_get_src, udp_get_dst and udp6_get_dst, in
\* both directions: when the native query succeeds the call returns 0 and
\* the address is the one the native query wrote with its family replaced by
\* the descriptor's tag (AF_CUST_UDP4 / AF_CUST_UDP6), whatever family the
\* native query wrote; when the native query fails its result is returned
\* as it is and the caller's sockaddr, family included, is left as the
\* native query left it.
C12_FamilyIsLogicalTag ==
    last.op \in {"get_src", "get_dst"}
    => /\ last.nat.ret = 0
          => /\ last.rc = 0
             /\ last.sa.family = Tag(last.proto)
             /\ last.sa.addr = last.nat.sa.addr
       /\ last.nat.ret # 0
          => /\ last.rc = last.nat.ret
             /\ last.sa = last.nat.sa
             /\ last.sa.family = last.sa_in.family

C12_Witness ==
    /\ last.op = "get_dst"
    /\ last.proto = "udp6"
    /\ last.dir = 0
    /\ last.rc = 0
    /\ last.nat.sa.family = AF_INET
    /\ last.sa.family = AF_CUST_UDP6

\* C13: udp_get_dst and udp6_get_dst both delegate to the same native
\* destination query, the one that for a listener (dir = 0) recovers the
\* original destination of redirected traffic: a successful call in the
\* listener direction on a socket whose traffic was redirected returns the
\* original destination, for either variant.
C13_SameDestinationQuery ==
    (last.op = "get_dst" /\ last.dir = 0 /\ last.rc = 0 /\ last.sock.redirected)
    => /\ last.native = "sock_inet_get_dst"
       /\ last.sa.addr = "original"

\* The flags that report a failure; ERR_WARN and ERR_ALERT only qualify the
\* message.
FailureFlags == ERR_RETRYABLE \cup ERR_FATAL \cup ERR_ABORT

\* C14: after udp_bind_listener on an LI_ASSIGNED listener of a syslog
\* frontend, the listener is LI_LISTEN exactly when the flags returned by
\* sock_inet_bind_receiver contain none of ERR_RETRYABLE, ERR_FATAL and
\* ERR_ABORT, and is still LI_ASSIGNED otherwise; udp_bind_listener returns
\* exactly the flags the primitive returned.
C14_ListenIffNoFailureFlag ==
    (last.op = "bindOne" /\ last.pre = LI_ASSIGNED /\ mode[last.l] = PR_MODE_SYSLOG)
    => /\ last.prims = <<last.l>>
       /\ \E a \in BindResponses : a.err = last.ret
       /\ state[last.l] = IF last.ret \cap FailureFlags = {} THEN LI_LISTEN ELSE LI_ASSIGNED

\* C15: no call of udp_bind_listener or udp_bind_listeners changes the list
\* or the count of either descriptor, or any listener's stored port or
\* rx.proto; the only listener field it may change is the state, and only of
\* listeners it was called on.
C15_BindKeepsMembership ==
    [][ last'.op \in {"bindOne", "bindAll"}
        => /\ UNCHANGED <<listeners, nb_listeners, sin_port, rx_proto, mode>>
           /\ \A l \in Listeners :
                  state'[l] # state[l] => l \in Range(last'.called) ]_vars

C15_Witness ==
    /\ last.op = "bindAll"
    /\ Len(last.called) = 2
    /\ \A i \in DOMAIN last.called : state[last.called[i]] = LI_LISTEN
    /\ last.prims = last.called
    /\ nb_listeners[last.proto] = 2

\* C16: binding is idempotent.  A bind call (udp_bind_listener or
\* udp_bind_listeners) that reaches a listener already LI_LISTEN returns
\* ERR_NONE for it, does not invoke sock_inet_bind_receiver for it and
\* leaves it LI_LISTEN; and a udp_bind_listeners call that follows one of
\* the same descriptor after which every listener of its list is LI_LISTEN
\* returns ERR_NONE and changes no listener's state.
C16_BindIsIdempotent ==
    [][ /\ last'.op \in {"bindOne", "bindAll"}
           => \A i \in DOMAIN last'.called :
                  state[last'.called[i]] = LI_LISTEN
                  => /\ last'.outs[i] = ERR_NONE
                     /\ last'.called[i] \notin Range(last'.prims)
                     /\ state'[last'.called[i]] = LI_LISTEN
        /\ ( /\ last.op = "bindAll"
             /\ last.called = listeners[last.proto]
             /\ \A i \in DOMAIN last.called : state[last.called[i]] = LI_LISTEN
             /\ last'.op = "bindAll"
             /\ last'.proto = last.proto )
           => /\ last'.ret = ERR_NONE
              /\ last'.prims = <<>>
              /\ state' = state ]_vars

C16_Witness ==
    /\ last.op = "bindAll"
    /\ Len(last.called) = 2
    /\ last.called = listeners[last.proto]
    /\ last.prims = <<>>
    /\ last.ret = ERR_NONE
    /\ \A i \in DOMAIN last.called : state[last.called[i]] = LI_LISTEN

\* C17: a listener's state only moves forward.  Under any sequence of add,
\* bind and pause calls the only state changes are LI_INIT to LI_ASSIGNED,
\* made by an add call on that listener, and LI_ASSIGNED to LI_LISTEN, made
\* by a bind call that reached that listener; nothing moves a listener back
\* and nothing moves it from LI_INIT to LI_LISTEN in one step.
C17_StateMovesForward ==
    [][ \A l \in Listeners :
            state'[l] # state[l]
            => \/ /\ state[l] = LI_INIT
                  /\ state'[l] = LI_ASSIGNED
                  /\ last'.op = "add"
                  /\ last'.l = l
               \/ /\ state[l] = LI_ASSIGNED
                  /\ state'[l] = LI_LISTEN
                  /\ last'.op \in {"bindOne", "bindAll"}
                  /\ l \in Range(last'.prims) ]_vars

C17_Witness ==
    /\ last.op = "bindOne"
    /\ last.pre = LI_ASSIGNED
    /\ state[last.l] = LI_LISTEN
    /\ \E l \in Listeners : state[l] = LI_INIT

\* C18: in every reachable state a listener is in a descriptor's list
\* exactly when it is LI_ASSIGNED or LI_LISTEN and its rx.proto names that
\* descriptor; it then appears in that list exactly once, and it is never in
\* the lists of proto_udp4 and proto_udp6 at the same time.
C18_MembershipMatchesState ==
    \A l \in Listeners :
        /\ \A p \in Protos :
               /\ l \in Range(listeners[p])
                  <=> (state[l] \in {LI_ASSIGNED, LI_LISTEN} /\ rx_proto[l] = p)
               /\ Cardinality({i \in DOMAIN listeners[p] : listeners[p][i] = l}) <= 1
        /\ state[l] \in {LI_ASSIGNED, LI_LISTEN}
           <=> (\E p \in Protos : l \in Range(listeners[p]))
        /\ ~(l \in Range(listeners["udp4"]) /\ l \in Range(listeners["udp6"]))

C18_Witness ==
    /\ last.op = "add"
    /\ last.proto = "udp6"
    /\ last.pre = LI_LISTEN
    /\ rx_proto[last.l] = "udp4"
    /\ \E l \in Range(listeners["udp6"]) : state[l] = LI_ASSIGNED

\* C19: when udp_bind_listeners returns ERR_NONE, every listener of the
\* descriptor's list is LI_LISTEN on return; so whenever a listener of the
\* list is still LI_ASSIGNED after the call, the flags returned are not
\* ERR_NONE.
C19_NoneMeansAllListening ==
    last.op = "bindAll"
    => /\ last.ret = ERR_NONE
          => \A l \in Range(listeners[last.proto]) : state[l] = LI_LISTEN
       /\ (\E l \in Range(listeners[last.proto]) : state[l] = LI_ASSIGNED)
          => last.ret # ERR_NONE

C19_Witness ==
    /\ last.op = "bindAll"
    /\ last.ret = ERR_NONE
    /\ last.errlen = SmallLen
    /\ Len(last.prims) = 2
    /\ \A l \in Range(listeners[last.proto]) : state[l] = LI_LISTEN

\* The primitive reported no failure during the last batch: none of its
\* outcomes carries ERR_RETRYABLE, ERR_FATAL or ERR_ABORT.
NoFailure ==
    last.op = "bindAll"
    => \A i \in DOMAIN last.outs : last.outs[i] \cap FailureFlags = {}

\* The batch returned ERR_NONE and every listener of the list is LI_LISTEN.
AllListening ==
    /\ last.op = "bindAll"
    /\ last.ret = ERR_NONE
    /\ \A l \in Range(listeners[last.proto]) : state[l] = LI_LISTEN

\* C20: when every listener is of a syslog frontend and the primitive
\* fails only finitely many times (from some batch on it reports no
\* failure), a caller that re-runs udp_bind_listeners while it returns
\* something other than ERR_NONE eventually gets ERR_NONE with every
\* listener of the list LI_LISTEN.
C20_RetryReachesListening ==
    ( /\ \A l \in Listeners : mode[l] = PR_MODE_SYSLOG
      /\ <>[]NoFailure )
    => <>AllListening

====
